---- MODULE Spec2Model ----
(***************************************************************************)
(* The supervision engine of process-orchestrator: the event pump          *)
(* (src/src/event_pump.rs), the per-process handle                         *)
(* (src/src/stateful_process.rs), the producers that feed the queue (tick  *)
(* thread, CTRL-C / service stop handler, OS exit-wait callback) and the   *)
(* child processes the handles refer to.                                   *)
(***************************************************************************)
EXTENDS Integers, Sequences, FiniteSets, TLC

VARIABLES
  queue,              \* the mpsc channel: events sent and not yet received
  configs,            \* EventPump.configs
  processes,          \* EventPump.processes
  is_stop_requested,  \* EventPump.is_stop_requested
  is_stopped,         \* EventPump.is_stopped
  ctrlc_registered,   \* the CTRL-C handler of on_orchestrator_starting is installed
  tick_started,       \* the timer thread of on_orchestrator_starting runs
  os,                 \* the operating system's side of every child created so far
  stop_signals,       \* number of OrchestratorRequestStop sent by the control sources
  last,               \* the event the loop dispatched last (the trace! line of run)
  sent,               \* the events that dispatch sent to the queue
  ops,                \* the stop operations that dispatch invoked on the OS
  service             \* the host: main's own loop, or service_main_inner and its Stop handler

vars == <<queue, configs, processes, is_stop_requested, is_stopped,
          ctrlc_registered, tick_started, os, stop_signals,
          last, sent, ops, service>>

(***************************************************************************)
(* Bounds of the model.                                                    *)
(***************************************************************************)
MaxQueue == 2         \* the tick thread and the control sources wait while the queue holds this many
MaxSpawns == 2        \* children created in one run; further CreateProcessA calls fail
MaxStopSignals == 2   \* CTRL-C presses / Stop controls in one run
MaxIdSuffix == 2      \* distinct outcomes of nanoid!(5, &alphabet)
MaxPendingTicks == 1  \* ticks the timer thread sends ahead of the loop

(***************************************************************************)
(* Option<T>: None, or a value.  Handles are present (TRUE) or None.       *)
(***************************************************************************)
None == -1

STILL_ACTIVE == 259

\* StatefulProcessStopMethod, and Option<StatefulProcessStopMethod>::None
StopMethods == {"CtrlC", "Terminate", "Unset"}

\* StatefulProcessConfig: the fields the engine reads
StatefulProcessConfig(n, stop, log, mem, dur) ==
  [name |-> n, stop_method |-> stop, log_file |-> log,
   recycle_on_memory_mbs |-> mem, recycle_on_duration_secs |-> dur]

CfgA == StatefulProcessConfig("A", "CtrlC", TRUE, 1, None)
CfgB == StatefulProcessConfig("B", "Unset", FALSE, None, 1)

\* The results load_stateful_process_configs can return: the *.yml files of
\* the directory in read_dir order; nothing makes the names distinct.
LoaderResults == {<<CfgA>>, <<CfgA, CfgB>>, <<CfgA, CfgA>>}

(***************************************************************************)
(* Events.  An event carries a spec name, a process id, or nothing.        *)
(***************************************************************************)
Event(t, n, i) == [type |-> t, name |-> n, id |-> i]

OrchestratorStarting == Event("OrchestratorStarting", "", <<>>)
OrchestratorTick == Event("OrchestratorTick", "", <<>>)
OrchestratorRequestStop == Event("OrchestratorRequestStop", "", <<>>)
OrchestratorStopping == Event("OrchestratorStopping", "", <<>>)
ProcessConfigLoaded(config) == Event("ProcessConfigLoaded", config.name, <<>>)
ProcessRequestStart(name) == Event("ProcessRequestStart", name, <<>>)
ProcessRequestPoll(id) == Event("ProcessRequestPoll", "", id)
ProcessRequestStop(id) == Event("ProcessRequestStop", "", id)
ProcessStopped(id) == Event("ProcessStopped", "", id)

NoEvent == Event("", "", <<>>)

(***************************************************************************)
(* StatefulProcess.                                                        *)
(***************************************************************************)
\* "{name}-{nanoid}": the name and one of the outcomes of the random draw
create_process_id(process_name, suffix) == <<process_name, suffix>>

\* the handle as StatefulProcess::new builds it; child is the index in os of
\* the child the handle comes to refer to
StatefulProcess(config, suffix, child) ==
  [id |-> create_process_id(config.name, suffix),
   config |-> config,
   memory_usage_mbs |-> None,
   duration_secs |-> None,
   register_handle |-> FALSE,
   process_handle |-> FALSE,
   pid |-> FALSE,
   log_file_handle |-> FALSE,
   child |-> child]

\* the handle after a start_instance that returned Ok
start_instance(h) ==
  [h EXCEPT !.log_file_handle = h.config.log_file,
            !.pid = TRUE,
            !.process_handle = TRUE,
            !.register_handle = TRUE]

\* a child as CreateProcessA leaves it, with the exit wait registered or not
NewChild(id, config, registered) ==
  [process_id |-> id,
   log_file |-> config.log_file,
   alive |-> TRUE, exit_code |-> 0,
   wait |-> IF registered THEN "pending" ELSE "none",
   signalled |-> FALSE,
   process_closes |-> 0, log_closes |-> 0, unregisters |-> 0,
   dropped |-> FALSE]

\* GetExitCodeProcess
GetExitCodeProcess(h) ==
  IF os[h.child].alive THEN STILL_ACTIVE ELSE os[h.child].exit_code

is_running(h) ==
  h.process_handle /\ GetExitCodeProcess(h) = STILL_ACTIVE

\* what the two queries of poll can return for a child
MemoryReadings == {None, 2}
DurationReadings == {1, 2}
Readings == [memory : MemoryReadings, duration : DurationReadings]

get_duration_in_seconds(h, r) ==
  IF ~h.process_handle THEN None ELSE r.duration

get_memory_usage(h, r) ==
  IF ~h.process_handle THEN None ELSE r.memory

poll(h, r) ==
  LET duration == get_duration_in_seconds(h, r)
      memory_usage == get_memory_usage(h, r)
      h1 == IF duration # None THEN [h EXCEPT !.duration_secs = duration] ELSE h
  IN IF memory_usage # None THEN [h1 EXCEPT !.memory_usage_mbs = memory_usage] ELSE h1

\* is_recycle_required with >= for its two comparisons
is_recycle_required_AtThreshold(h) ==
  \/ /\ h.config.recycle_on_memory_mbs # None
     /\ h.memory_usage_mbs # None
     /\ h.memory_usage_mbs >= h.config.recycle_on_memory_mbs
  \/ /\ h.config.recycle_on_duration_secs # None
     /\ h.duration_secs # None
     /\ h.duration_secs >= h.config.recycle_on_duration_secs

is_recycle_required(h) ==
  \/ /\ h.config.recycle_on_memory_mbs # None
     /\ h.memory_usage_mbs # None
     /\ h.memory_usage_mbs > h.config.recycle_on_memory_mbs
  \/ /\ h.config.recycle_on_duration_secs # None
     /\ h.duration_secs # None
     /\ h.duration_secs > h.config.recycle_on_duration_secs

\* request_stop that never looks at stop_method
StopOperation_AlwaysTerminate(h) ==
  IF ~h.process_handle \/ ~h.pid THEN "none" ELSE "terminate"

\* the OS operation request_stop performs on the handle, if any
StopOperation(h) ==
  IF ~h.process_handle \/ ~h.pid THEN "none"
  ELSE IF h.config.stop_method = "CtrlC" THEN "send_ctrl_c"
  ELSE "terminate"

\* request_stop calls send_ctrl_c or terminate, or returns before either
StopOperations(h) ==
  IF StopOperation(h) = "none" THEN <<>> ELSE <<StopOperation(h)>>

\* terminate: the handle afterwards
terminate(h) ==
  IF ~h.process_handle THEN h ELSE [h EXCEPT !.process_handle = FALSE]

\* TerminateProcess(process_handle, 0); CloseHandle(process_handle)
TerminateChild(c) ==
  [c EXCEPT !.alive = FALSE,
            !.exit_code = IF c.alive THEN 0 ELSE c.exit_code,
            !.process_closes = c.process_closes + 1]

\* GenerateConsoleCtrlEvent(CTRL_C_EVENT, pid)
SignalChild(c) == [c EXCEPT !.signalled = TRUE]

request_stop(h) ==
  IF StopOperation(h) = "terminate" THEN terminate(h) ELSE h

\* on_stopped: the handle afterwards, and the child's side of it
on_stopped(h) == [h EXCEPT !.log_file_handle = FALSE]

OnStoppedChild(h, c) ==
  IF h.log_file_handle
    THEN [c EXCEPT !.log_closes = c.log_closes + 1]
    ELSE c

\* the child's side of request_stop
RequestStopChild(h, c) ==
  IF StopOperation(h) = "terminate" THEN TerminateChild(c)
  ELSE IF StopOperation(h) = "send_ctrl_c" THEN SignalChild(c)
  ELSE c

(***************************************************************************)
(* EventPump.                                                              *)
(***************************************************************************)
\* the host of the pump.  phase: where main or service_main_inner stands;
\* status: the state last reported to the service control manager; handler:
\* where the Stop control handler stands; stopped_event: the messages in the
\* channel from service_main_inner to the handler
Host(phase, status, handler, stopped_event) ==
  [phase |-> phase, status |-> status, handler |-> handler,
   stopped_event |-> stopped_event, panicked |-> {}]

\* main found no service controller and runs the pump itself
Standalone == Host("standalone", "none", "none", 0)

\* pump.run() has been called and has not returned
LoopRuns == service.phase \in {"standalone", "running"}

\* service_main_inner has returned: event_pump, and with it the receiver and
\* every live handle, is dropped
PumpDropped == service.phase \in {"returned", "failed"}

\* EventPump::new: the channel holds OrchestratorStarting
Init ==
  /\ queue = <<OrchestratorStarting>>
  /\ configs = <<>>
  /\ processes = <<>>
  /\ is_stop_requested = FALSE
  /\ is_stopped = FALSE
  /\ ctrlc_registered = FALSE
  /\ tick_started = FALSE
  /\ os = <<>>
  /\ stop_signals = 0
  /\ last = NoEvent
  /\ sent = <<>>
  /\ ops = <<>>
  /\ service = Standalone

\* a loop without the is_stopped test at its top
Receives_AfterStopped(type) ==
  /\ LoopRuns
  /\ queue # <<>>
  /\ Head(queue).type = type

\* run: the loop receives the next event unless is_stopped
Receives(type) ==
  /\ LoopRuns
  /\ ~is_stopped
  /\ queue # <<>>
  /\ Head(queue).type = type

\* a loop whose sends overtake the events already in the channel
Dispatched_SentFirst(out) ==
  /\ queue' = out \o Tail(queue)
  /\ last' = Head(queue)
  /\ sent' = out
  /\ ops' = <<>>

\* the handler returns after sending `out`; only request_stop invokes a stop
\* operation
Dispatched(out) ==
  /\ queue' = Tail(queue) \o out
  /\ last' = Head(queue)
  /\ sent' = out
  /\ ops' = <<>>

\* nanoid!(5, &alphabet) draws at random and ids are only ever compared for
\* equality, so the outcomes are named in their order of first appearance for
\* a name: a draw repeats one seen before or is the next new one
UsedSuffixes(process_name) ==
  {os[k].process_id[2] : k \in {j \in 1..Len(os) : os[j].process_id[1] = process_name}}

IdSuffixes(process_name) ==
  {n \in 1..MaxIdSuffix : n <= Cardinality(UsedSuffixes(process_name)) + 1}

\* find_process_by_process_id / iter().position(|p| p.id == process_id)
HasProcess(process_id) ==
  \E i \in 1..Len(processes) : processes[i].id = process_id

find_process_by_process_id(process_id) ==
  CHOOSE i \in 1..Len(processes) :
    /\ processes[i].id = process_id
    /\ \A j \in 1..(i - 1) : processes[j].id # process_id

\* Vec::remove(index)
Remove(s, index) ==
  [i \in 1..(Len(s) - 1) |-> IF i < index THEN s[i] ELSE s[i + 1]]

HasConfig(process_name) ==
  \E i \in 1..Len(configs) : configs[i].name = process_name

\* configs.iter().find(|x| x.name == process_name)
FindConfig(process_name) ==
  configs[CHOOSE i \in 1..Len(configs) :
            /\ configs[i].name = process_name
            /\ \A j \in 1..(i - 1) : configs[j].name # process_name]

\* a second pass that stops at the first handle it sends for
RecycleEvents_FirstOnly(ps) ==
  LET required == SelectSeq(ps, is_recycle_required)
  IN IF Len(required) = 0 THEN <<>> ELSE <<ProcessRequestStop(required[1].id)>>

\* what the second pass of on_orchestrator_tick sends
RecycleEvents(ps) ==
  LET required == SelectSeq(ps, is_recycle_required)
  IN [i \in 1..Len(required) |-> ProcessRequestStop(required[i].id)]

\* what on_orchestrator_request_stop sends
RequestStopEvents(ps) ==
  IF Len(ps) = 0
    THEN <<OrchestratorStopping>>
    ELSE [i \in 1..Len(ps) |-> ProcessRequestStop(ps[i].id)]

\* on_process_stopped without the is_stop_requested test
StoppedEvents_NoStopRequestedTest(process_name, ps, stop_requested) ==
  IF Len(ps) = 0
    THEN <<OrchestratorStopping>>
    ELSE <<ProcessRequestStart(process_name)>>

\* on_process_stopped without the processes.len() == 0 test
StoppedEvents_NoEmptyTest(process_name, ps, stop_requested) ==
  IF stop_requested
    THEN <<OrchestratorStopping>>
    ELSE <<ProcessRequestStart(process_name)>>

\* on_process_stopped without the restart in its else branch
StoppedEvents_NoRestart(process_name, ps, stop_requested) ==
  IF stop_requested
    THEN IF Len(ps) = 0 THEN <<OrchestratorStopping>> ELSE <<>>
    ELSE <<>>

\* what on_process_stopped sends once the handle is removed and ps remain
StoppedEvents(process_name, ps, stop_requested) ==
  IF stop_requested
    THEN IF Len(ps) = 0 THEN <<OrchestratorStopping>> ELSE <<>>
    ELSE <<ProcessRequestStart(process_name)>>

\* on_process_stopped going on to its stop test when no handle has the id
NotFoundEvents_FallsThrough(ps, stop_requested) ==
  IF stop_requested /\ Len(ps) = 0 THEN <<OrchestratorStopping>> ELSE <<>>

\* what on_process_stopped sends when no handle has the id: it returns at once
NotFoundEvents(ps, stop_requested) == <<>>

\* on_request_process_poll without the is_running test
PollEvents_NoRunningTest(process) ==
  <<ProcessStopped(process.id)>>

\* what on_request_process_poll sends after the poll
PollEvents(process) ==
  IF ~is_running(process) THEN <<ProcessStopped(process.id)>>
  ELSE IF is_recycle_required(process) THEN <<ProcessRequestStop(process.id)>>
  ELSE <<>>

on_orchestrator_starting ==
  /\ Receives("OrchestratorStarting")
  /\ \/ \* ctrlc::set_handler fails
        /\ Dispatched(<<>>)
        /\ UNCHANGED <<configs, ctrlc_registered, tick_started, stop_signals>>
     \/ \* load_stateful_process_configs fails
        /\ ctrlc_registered' = TRUE
        /\ Dispatched(<<>>)
        /\ UNCHANGED <<configs, tick_started, stop_signals>>
     \/ \* CTRL-C may be pressed once the handler is set, before the configs are sent
        \E loaded \in LoaderResults, early \in {0, 1} :
          LET out == [i \in 1..Len(loaded) |-> ProcessConfigLoaded(loaded[i])]
              pressed == [i \in 1..early |-> OrchestratorRequestStop]
          IN /\ stop_signals + early <= MaxStopSignals
             /\ ctrlc_registered' = TRUE
             /\ configs' = loaded
             /\ queue' = Tail(queue) \o pressed \o out
             /\ last' = Head(queue)
             /\ sent' = out
             /\ ops' = <<>>
             /\ stop_signals' = stop_signals + early
             /\ tick_started' = TRUE
  /\ UNCHANGED <<service, processes, is_stop_requested, is_stopped, os>>

on_process_config_loaded ==
  /\ Receives("ProcessConfigLoaded")
  /\ Dispatched(<<ProcessRequestStart(Head(queue).name)>>)
  /\ UNCHANGED <<service, configs, processes, is_stop_requested, is_stopped,
                 ctrlc_registered, tick_started, os, stop_signals>>

on_orchestrator_request_stop ==
  /\ Receives("OrchestratorRequestStop")
  /\ is_stop_requested' = TRUE
  /\ Dispatched(RequestStopEvents(processes))
  /\ UNCHANGED <<service, configs, processes, is_stopped, ctrlc_registered, tick_started, os, stop_signals>>

\* an on_process_start that pushes the handle before it looks at the result
PushStarted_Always(ps, process, started) == Append(ps, process)

\* process.start_instance()?; self.processes.push(process): the `?` returns
\* before the push unless start_instance returned Ok
PushStarted(ps, process, started) ==
  IF started THEN Append(ps, process) ELSE ps

on_process_start ==
  /\ Receives("ProcessRequestStart")
  /\ LET process_name == Head(queue).name IN
       IF ~HasConfig(process_name)
         THEN UNCHANGED <<processes, os>>
         ELSE
           \/ \* CreateProcessA fails
              UNCHANGED <<processes, os>>
           \/ \* RegisterWaitForSingleObject fails: the child runs, no handle is kept
              /\ Len(os) < MaxSpawns
              /\ \E suffix \in IdSuffixes(process_name) :
                   LET process == StatefulProcess(FindConfig(process_name), suffix, Len(os) + 1)
                   IN /\ processes' = PushStarted(processes, start_instance(process), FALSE)
                      /\ os' = Append(os, NewChild(process.id, process.config, FALSE))
           \/ /\ Len(os) < MaxSpawns
              /\ \E suffix \in IdSuffixes(process_name) :
                   LET process == StatefulProcess(FindConfig(process_name), suffix, Len(os) + 1)
                   IN /\ processes' = PushStarted(processes, start_instance(process), TRUE)
                      /\ os' = Append(os, NewChild(process.id, process.config, TRUE))
  /\ Dispatched(<<>>)
  /\ UNCHANGED <<service, configs, is_stop_requested, is_stopped, ctrlc_registered,
                 tick_started, stop_signals>>

on_request_process_stop ==
  /\ Receives("ProcessRequestStop")
  /\ LET process_id == Head(queue).id IN
       IF HasProcess(process_id)
         THEN LET i == find_process_by_process_id(process_id)
                  process == processes[i]
              IN /\ processes' = [processes EXCEPT ![i] = request_stop(process)]
                 /\ os' = [os EXCEPT ![process.child] = RequestStopChild(process, @)]
                 /\ ops' = StopOperations(process)
         ELSE /\ ops' = <<>>
              /\ UNCHANGED <<processes, os>>
  /\ queue' = Tail(queue)
  /\ last' = Head(queue)
  /\ sent' = <<>>
  /\ UNCHANGED <<service, configs, is_stop_requested, is_stopped, ctrlc_registered,
                 tick_started, stop_signals>>

on_process_stopped ==
  /\ Receives("ProcessStopped")
  /\ LET process_id == Head(queue).id IN
       IF ~HasProcess(process_id)
         THEN /\ Dispatched(NotFoundEvents(processes, is_stop_requested))
              /\ UNCHANGED <<processes, os>>
         ELSE LET index == find_process_by_process_id(process_id)
                  process == processes[index]
                  process_name == process.config.name
              IN /\ os' = [os EXCEPT ![process.child] =
                             [OnStoppedChild(process, @) EXCEPT !.dropped = TRUE]]
                 /\ processes' = Remove(processes, index)
                 /\ Dispatched(StoppedEvents(process_name, processes', is_stop_requested))
  /\ UNCHANGED <<service, configs, is_stop_requested, is_stopped, ctrlc_registered,
                 tick_started, stop_signals>>

on_request_process_poll ==
  /\ Receives("ProcessRequestPoll")
  /\ LET process_id == Head(queue).id IN
       IF HasProcess(process_id)
         THEN LET i == find_process_by_process_id(process_id) IN
              \E r \in Readings :
                LET process == poll(processes[i], r) IN
                  /\ processes' = [processes EXCEPT ![i] = process]
                  /\ Dispatched(PollEvents(process))
         ELSE /\ Dispatched(<<>>)
              /\ UNCHANGED processes
  /\ UNCHANGED <<service, configs, is_stop_requested, is_stopped, ctrlc_registered,
                 tick_started, os, stop_signals>>

on_orchestrator_tick ==
  /\ Receives("OrchestratorTick")
  /\ \E r \in [1..Len(processes) -> Readings] :
       /\ processes' = [i \in 1..Len(processes) |-> poll(processes[i], r[i])]
       /\ Dispatched(RecycleEvents(processes'))
  /\ UNCHANGED <<service, configs, is_stop_requested, is_stopped, ctrlc_registered,
                 tick_started, os, stop_signals>>

on_orchestrator_stopping ==
  /\ Receives("OrchestratorStopping")
  /\ is_stopped' = TRUE
  /\ Dispatched(<<>>)
  /\ UNCHANGED <<service, configs, processes, is_stop_requested, ctrlc_registered,
                 tick_started, os, stop_signals>>

(***************************************************************************)
(* The producers outside the loop, and the children.  main returns as soon *)
(* as run does, which ends the threads of the process: nothing below acts  *)
(* once is_stopped has ended the loop.                                     *)
(***************************************************************************)
\* another thread sends `event`; the loop's own variables are untouched
Send(event) ==
  /\ ~is_stopped
  /\ Len(queue) < MaxQueue
  /\ queue' = Append(queue, event)
  /\ UNCHANGED <<service, configs, is_stop_requested, is_stopped, ctrlc_registered,
                 tick_started, last, sent, ops>>

\* the timer thread of on_orchestrator_starting
PendingTicks == Len(SelectSeq(queue, LAMBDA e : e.type = "OrchestratorTick"))

TickThread ==
  /\ tick_started
  /\ PendingTicks < MaxPendingTicks
  /\ Send(OrchestratorTick)
  /\ UNCHANGED <<processes, os, stop_signals>>

\* the CTRL-C handler installed by on_orchestrator_starting
ControlStop ==
  /\ ctrlc_registered
  /\ stop_signals < MaxStopSignals
  /\ stop_signals' = stop_signals + 1
  /\ Send(OrchestratorRequestStop)
  /\ UNCHANGED <<processes, os>>

\* a child exits by itself, with any exit code
ExitCodes == {0, STILL_ACTIVE}

ChildExit(k) ==
  \E code \in ExitCodes :
    /\ ~is_stopped
    /\ os[k].alive
    /\ os' = [os EXCEPT ![k].alive = FALSE, ![k].exit_code = code]
    /\ UNCHANGED <<service, queue, configs, processes, is_stop_requested, is_stopped,
                   ctrlc_registered, tick_started, stop_signals,
                   last, sent, ops>>

\* the process handle a wait is registered on was closed while the wait was
\* pending: the wait may never fire
WaitLost(k) ==
    /\ ~is_stopped
    /\ os[k].wait = "pending"
    /\ os[k].process_closes > 0
    /\ os' = [os EXCEPT ![k].wait = "lost"]
    /\ UNCHANGED <<service, queue, configs, processes, is_stop_requested, is_stopped,
                   ctrlc_registered, tick_started, stop_signals,
                   last, sent, ops>>

\* wait_or_timer_callback, first half: the exit wait of a child that exited
\* fires once and sends ProcessRequestPoll with the context's process_id
ExitCallbackSend(k) ==
    /\ ~os[k].alive
    /\ os[k].wait = "pending"
    /\ os' = [os EXCEPT ![k].wait = "sent"]
    /\ Send(ProcessRequestPoll(os[k].process_id))
    /\ UNCHANGED <<processes, stop_signals>>

\* the context's register_handle is cleared on the handle that owns the context
ClearRegisterHandle(ps, k) ==
  [i \in 1..Len(ps) |->
     IF ps[i].child = k THEN [ps[i] EXCEPT !.register_handle = FALSE] ELSE ps[i]]

\* wait_or_timer_callback, second half: UnregisterWait, register_handle = None.
\* The context belongs to the handle: once the handle is dropped the read of
\* register_handle is a read of freed memory, which finds Some or None.
ExitCallbackUnregister(k) ==
    /\ ~is_stopped
    /\ os[k].wait = "sent"
    /\ \/ os' = [os EXCEPT ![k].wait = "done", ![k].unregisters = @ + 1]
       \/ /\ os[k].dropped
          /\ os' = [os EXCEPT ![k].wait = "done"]
    /\ processes' = ClearRegisterHandle(processes, k)
    /\ UNCHANGED <<service, queue, configs, is_stop_requested, is_stopped,
                   ctrlc_registered, tick_started, stop_signals,
                   last, sent, ops>>

Next ==
  \/ on_orchestrator_starting
  \/ on_process_config_loaded
  \/ on_orchestrator_request_stop
  \/ on_process_start
  \/ on_request_process_stop
  \/ on_process_stopped
  \/ on_request_process_poll
  \/ on_orchestrator_tick
  \/ on_orchestrator_stopping
  \/ TickThread
  \/ ControlStop
  \/ \E k \in 1..Len(os) : ChildExit(k)
  \/ \E k \in 1..Len(os) : WaitLost(k)
  \/ \E k \in 1..Len(os) : ExitCallbackSend(k)
  \/ \E k \in 1..Len(os) : ExitCallbackUnregister(k)

Spec == Init /\ [][Next]_vars

(***************************************************************************)
(* is_recycle_required on its own: a running handle of a spec with any     *)
(* pair of thresholds, holding any pair of last metrics, and a tick due.   *)
(***************************************************************************)
RecycleThresholds == {None, 1, 2, 3}
RecycleMetrics == {None, 1, 2, 3}

RecycleInit ==
  \E mem_t \in RecycleThresholds, dur_t \in RecycleThresholds,
     mem \in RecycleMetrics, dur \in RecycleMetrics :
    LET config == StatefulProcessConfig("A", "Unset", FALSE, mem_t, dur_t)
        process == [start_instance(StatefulProcess(config, 1, 1))
                      EXCEPT !.memory_usage_mbs = mem, !.duration_secs = dur]
    IN /\ queue = <<OrchestratorTick>>
       /\ configs = <<config>>
       /\ processes = <<process>>
       /\ is_stop_requested = FALSE
       /\ is_stopped = FALSE
       /\ ctrlc_registered = TRUE
       /\ tick_started = TRUE
       /\ os = <<NewChild(process.id, config, TRUE)>>
       /\ stop_signals = 0
       /\ last = ProcessRequestStart("A")
       /\ sent = <<>>
       /\ ops = <<>>
       /\ service = Standalone

RecycleNext == on_orchestrator_tick

RecycleSpec == RecycleInit /\ [][RecycleNext]_vars

(***************************************************************************)
(* request_stop on its own: one live handle of a spec with any stop        *)
(* method, whose child runs, has exited, or was terminated by an earlier   *)
(* request_stop, and one or two ProcessRequestStop due.                    *)
(***************************************************************************)
StopQueues(id) ==
  {<<ProcessRequestStop(id)>>,
   <<ProcessRequestStop(id), ProcessRequestStop(id)>>,
   <<ProcessRequestStop(create_process_id("B", 1)), ProcessRequestStop(id)>>}

StopInit ==
  \E stop \in StopMethods, log \in BOOLEAN,
     state \in {"running", "exited", "terminated"} :
    LET config == StatefulProcessConfig("A", stop, log, None, None)
        started == start_instance(StatefulProcess(config, 1, 1))
        process == IF state = "terminated" THEN terminate(started) ELSE started
        created == NewChild(process.id, config, TRUE)
        child == IF state = "terminated" THEN TerminateChild(created)
                 ELSE IF state = "exited" THEN [created EXCEPT !.alive = FALSE]
                 ELSE created
    IN /\ queue \in StopQueues(process.id)
       /\ configs = <<config>>
       /\ processes = <<process>>
       /\ is_stop_requested \in BOOLEAN
       /\ is_stopped = FALSE
       /\ ctrlc_registered = TRUE
       /\ tick_started = TRUE
       /\ os = <<child>>
       /\ stop_signals = 0
       /\ last = ProcessRequestStart("A")
       /\ sent = <<>>
       /\ ops = <<>>
       /\ service = Standalone

StopNext == on_request_process_stop

StopSpec == StopInit /\ [][StopNext]_vars

(***************************************************************************)
(* The three handlers that look a handle up by id, on events addressed to  *)
(* an id no live handle has: the id of a handle of spec A that was reaped, *)
(* or an id no handle ever had.  Spec B has a live handle or none, a stop  *)
(* is requested or not, and what the ProcessStopped that reaped A sent is  *)
(* still queued behind the stale events.                                   *)
(***************************************************************************)
StaleIds == {create_process_id("A", 1), create_process_id("A", 2)}

StaleEvents ==
  UNION {{ProcessRequestPoll(id), ProcessRequestStop(id), ProcessStopped(id)} :
           id \in StaleIds}

StaleQueues ==
  {<<e>> : e \in StaleEvents} \cup {<<e, f>> : e \in StaleEvents, f \in StaleEvents}

StaleInit ==
  \E stale \in StaleQueues, stop_requested \in BOOLEAN, others \in 0..1,
     r \in Readings :
    LET reaped == ClearRegisterHandle(<<start_instance(StatefulProcess(CfgA, 1, 1))>>, 1)[1]
        exited == [NewChild(reaped.id, CfgA, TRUE) EXCEPT
                     !.alive = FALSE, !.wait = "done", !.unregisters = 1]
        other == poll(start_instance(StatefulProcess(CfgB, 1, 2)), r)
        live == IF others = 1 THEN <<other>> ELSE <<>>
    IN /\ queue = stale \o StoppedEvents("A", live, stop_requested)
       /\ configs = <<CfgA, CfgB>>
       /\ processes = live
       /\ is_stop_requested = stop_requested
       /\ is_stopped = FALSE
       /\ ctrlc_registered = TRUE
       /\ tick_started = TRUE
       /\ os = <<[OnStoppedChild(reaped, exited) EXCEPT !.dropped = TRUE]>>
                 \o (IF others = 1 THEN <<NewChild(other.id, CfgB, TRUE)>> ELSE <<>>)
       /\ stop_signals = IF stop_requested THEN 1 ELSE 0
       /\ last = ProcessStopped(reaped.id)
       /\ sent = StoppedEvents("A", live, stop_requested)
       /\ ops = <<>>
       /\ service = Standalone

StaleNext ==
  \/ on_request_process_poll
  \/ on_request_process_stop
  \/ on_process_stopped

StaleSpec == StaleInit /\ [][StaleNext]_vars

\* one iteration of the loop of run
Dispatch ==
  \/ on_orchestrator_starting
  \/ on_process_config_loaded
  \/ on_orchestrator_request_stop
  \/ on_process_start
  \/ on_request_process_stop
  \/ on_process_stopped
  \/ on_request_process_poll
  \/ on_orchestrator_tick
  \/ on_orchestrator_stopping

\* The loop receives whatever the channel holds; the timer thread loops for
\* ever; a callback the thread pool runs, runs to its end, and its send
\* never blocks (the channel is unbounded); a child that was sent CTRL-C
\* exits.
Fairness ==
  /\ WF_vars(Dispatch)
  /\ WF_vars(TickThread)
  /\ \A k \in 1..MaxSpawns :
       /\ SF_vars(k <= Len(os) /\ ExitCallbackSend(k))
       /\ WF_vars(k <= Len(os) /\ ExitCallbackUnregister(k))
       /\ WF_vars(k <= Len(os) /\ os[k].signalled /\ ChildExit(k))

FairSpec == Spec /\ Fairness

(***************************************************************************)
(* The pump hosted by the Windows service (service_main_inner).  A service *)
(* has no console: no CTRL-C reaches the handler on_orchestrator_starting  *)
(* installs, and the only stop signal is the Stop control.                 *)
(***************************************************************************)
\* everything but the host
engine == <<queue, configs, processes, is_stop_requested, is_stopped,
            ctrlc_registered, tick_started, os, stop_signals,
            last, sent, ops>>

\* EventPump::new() and the two channels exist; nothing is registered yet
ServiceInit ==
  /\ queue = <<OrchestratorStarting>>
  /\ configs = <<>>
  /\ processes = <<>>
  /\ is_stop_requested = FALSE
  /\ is_stopped = FALSE
  /\ ctrlc_registered = FALSE
  /\ tick_started = FALSE
  /\ os = <<>>
  /\ stop_signals = MaxStopSignals
  /\ last = NoEvent
  /\ sent = <<>>
  /\ ops = <<>>
  /\ service = Host("new", "none", "idle", 0)

\* service_control_handler::register(...)?
ServiceRegister ==
  /\ service.phase = "new"
  /\ \/ service' = [service EXCEPT !.phase = "registered"]
     \/ service' = [service EXCEPT !.phase = "failed"]
  /\ UNCHANGED engine

\* set_service_status(Running)?, then event_pump.run() is entered
ServiceReportRunning ==
  /\ service.phase = "registered"
  /\ \/ service' = [service EXCEPT !.phase = "running", !.status = "Running"]
     \/ service' = [service EXCEPT !.phase = "failed"]
  /\ UNCHANGED engine

\* the handler is called with ServiceControl::Stop while the service is
\* Running: it sends OrchestratorRequestStop and waits in recv()
ServiceStop ==
  /\ service.phase = "running"
  /\ service.status = "Running"
  /\ service.handler = "idle"
  /\ Len(queue) < MaxQueue
  /\ queue' = Append(queue, OrchestratorRequestStop)
  /\ service' = [service EXCEPT !.handler = "blocked"]
  /\ UNCHANGED <<configs, processes, is_stop_requested, is_stopped,
                 ctrlc_registered, tick_started, os, stop_signals,
                 last, sent, ops>>

\* run() returned: set_service_status(Stopped)?
ServiceReportStopped ==
  /\ service.phase = "running"
  /\ is_stopped
  /\ \/ service' = [service EXCEPT !.phase = "stopped", !.status = "Stopped"]
     \/ service' = [service EXCEPT !.phase = "failed"]
  /\ UNCHANGED engine

\* stopped_event_sender.send(())?; Ok(())
ServiceSignalStopped ==
  /\ service.phase = "stopped"
  /\ service' = [service EXCEPT !.phase = "returned", !.stopped_event = 1]
  /\ UNCHANGED engine

\* stopped_event_receiver.recv().unwrap() returns; the handler returns NoError
ServiceHandlerReturn ==
  /\ service.handler = "blocked"
  /\ service.stopped_event = 1
  /\ service' = [service EXCEPT !.handler = "released", !.stopped_event = 0]
  /\ UNCHANGED engine

\* service_main_inner returned an error and dropped stopped_event_sender:
\* recv() returns Err and the unwrap panics in the handler
ServiceHandlerPanic ==
  /\ service.handler = "blocked"
  /\ service.stopped_event = 0
  /\ service.phase = "failed"
  /\ service' = [service EXCEPT !.handler = "panicked"]
  /\ UNCHANGED engine

\* the timer thread wakes after the receiver is gone: send returns Err and
\* the unwrap panics in the thread
TickAfterExit ==
  /\ PumpDropped
  /\ tick_started
  /\ <<"tick", 0>> \notin service.panicked
  /\ service' = [service EXCEPT !.panicked = @ \cup {<<"tick", 0>>}]
  /\ UNCHANGED engine

\* wait_or_timer_callback runs after the receiver is gone.  Its context went
\* with the handle: the send through it is a use of freed memory, which
\* fails as a send to a dropped receiver does (the unwrap panics), or not.
CallbackAfterExit(k) ==
  /\ PumpDropped
  /\ ~os[k].alive
  /\ os[k].wait = "pending"
  /\ os' = [os EXCEPT ![k].wait = "sent"]
  /\ \/ service' = [service EXCEPT !.panicked = @ \cup {<<"callback", k>>}]
     \/ UNCHANGED service
  /\ UNCHANGED <<queue, configs, processes, is_stop_requested, is_stopped,
                 ctrlc_registered, tick_started, stop_signals,
                 last, sent, ops>>

ServiceNext ==
  \/ on_orchestrator_starting
  \/ on_process_config_loaded
  \/ on_orchestrator_request_stop
  \/ on_process_start
  \/ on_request_process_stop
  \/ on_process_stopped
  \/ on_request_process_poll
  \/ on_orchestrator_tick
  \/ on_orchestrator_stopping
  \/ TickThread
  \/ \E k \in 1..Len(os) : ChildExit(k)
  \/ \E k \in 1..Len(os) : WaitLost(k)
  \/ \E k \in 1..Len(os) : ExitCallbackSend(k)
  \/ \E k \in 1..Len(os) : ExitCallbackUnregister(k)
  \/ ServiceRegister
  \/ ServiceReportRunning
  \/ ServiceStop
  \/ ServiceReportStopped
  \/ ServiceSignalStopped
  \/ ServiceHandlerReturn
  \/ ServiceHandlerPanic
  \/ TickAfterExit
  \/ \E k \in 1..Len(os) : CallbackAfterExit(k)

ServiceSpec == ServiceInit /\ [][ServiceNext]_vars

\* service_main_inner runs to its end, and a handler whose recv() can
\* return, returns
ServiceFairness ==
  /\ Fairness
  /\ WF_vars(ServiceRegister)
  /\ WF_vars(ServiceReportRunning)
  /\ WF_vars(ServiceReportStopped)
  /\ WF_vars(ServiceSignalStopped)
  /\ WF_vars(ServiceHandlerReturn)
  /\ WF_vars(ServiceHandlerPanic)

ServiceFairSpec == ServiceSpec /\ ServiceFairness

(***************************************************************************)
(* Properties.                                                             *)
(***************************************************************************)
\* a step of the loop: it received the head of the queue and sent `sent'`
DispatchStep ==
  /\ ~is_stopped
  /\ queue # <<>>
  /\ last' = Head(queue)
  /\ queue' = Tail(queue) \o sent'

Sends(out, type) == {i \in 1..Len(out) : out[i].type = type}

Live(process_name) ==
  {i \in 1..Len(processes) : processes[i].config.name = process_name}

Names == {"A", "B"}

\* C1: in every reachable state the live set holds at most one handle per
\* spec name.
C1_AtMostOneLivePerName ==
  \A n \in Names : Cardinality(Live(n)) <= 1

\* C2: whenever the engine has set is_stopped, the live set is empty.
C2_StoppedImpliesNoLive ==
  is_stopped => Len(processes) = 0

\* C3: once is_stop_requested is true, no handler sends ProcessRequestStart.
C3_NoStartAfterStopRequested ==
  [][(DispatchStep /\ is_stop_requested)
       => Sends(sent', "ProcessRequestStart") = {}]_vars

\* C4: a handler sends OrchestratorStopping only with is_stop_requested true
\* and the live set empty when it returns, and OrchestratorRequestStop and
\* ProcessStopped send it whenever they return with is_stop_requested true
\* and the live set empty.
C4_StoppingIffLiveEmpty ==
  [][DispatchStep =>
       /\ (Sends(sent', "OrchestratorStopping") # {}
             => is_stop_requested' /\ Len(processes') = 0)
       /\ ((/\ Head(queue).type \in {"OrchestratorRequestStop", "ProcessStopped"}
            /\ is_stop_requested'
            /\ Len(processes') = 0)
             => Sends(sent', "OrchestratorStopping") # {})]_vars

\* C4 witness: ProcessStopped removed the last live handle during shutdown
\* and sent OrchestratorStopping.
C4_Witness ==
  /\ last.type = "ProcessStopped"
  /\ is_stop_requested
  /\ Len(processes) = 0
  /\ sent = <<OrchestratorStopping>>

\* C5: OrchestratorRequestStop processed with is_stop_requested already true
\* changes no engine variable and sends nothing.
C5_SecondRequestStopIsNoOp ==
  [][(DispatchStep /\ Head(queue).type = "OrchestratorRequestStop"
        /\ is_stop_requested)
       => /\ sent' = <<>>
          /\ UNCHANGED <<configs, processes, is_stop_requested, is_stopped>>]_vars

\* C6: a handle removed from the live set while is_stop_requested is false
\* makes the handler send exactly one ProcessRequestStart, carrying the
\* removed handle's spec name; ProcessStopped for an id that is not live
\* sends nothing.
C6_RestartLaw ==
  [][DispatchStep =>
       /\ (~is_stop_requested /\ Len(processes') < Len(processes)
             => \E i \in 1..Len(processes) :
                  /\ processes' = Remove(processes, i)
                  /\ Cardinality(Sends(sent', "ProcessRequestStart")) = 1
                  /\ \A j \in Sends(sent', "ProcessRequestStart") :
                       sent'[j] = ProcessRequestStart(processes[i].config.name))
       /\ (Head(queue).type = "ProcessStopped" /\ ~HasProcess(Head(queue).id)
             => sent' = <<>>)]_vars

\* C6 witness: ProcessStopped removed a handle outside shutdown and sent the
\* restart of its spec.
C6_Witness ==
  /\ last.type = "ProcessStopped"
  /\ ~is_stop_requested
  /\ \E k \in 1..Len(os) :
       /\ os[k].dropped
       /\ os[k].process_id = last.id
       /\ sent = <<ProcessRequestStart(os[k].process_id[1])>>

\* C9: a handle without an OS process handle has no pid, no memory value,
\* no uptime value and no exit registration.
C9_NoProcessHandleImpliesAllAbsent ==
  \A i \in 1..Len(processes) :
    ~processes[i].process_handle
      => /\ ~processes[i].pid
         /\ processes[i].memory_usage_mbs = None
         /\ processes[i].duration_secs = None
         /\ ~processes[i].register_handle

\* C10: once ProcessStopped has removed a handle, its process handle was
\* closed exactly once, its log-file handle (if the spec has one) exactly
\* once, and its exit wait was unregistered exactly once.
C10_ResourcesReleasedOnce ==
  \A k \in 1..Len(os) :
    os[k].dropped
      => /\ os[k].process_closes = 1
         /\ os[k].unregisters = 1
         /\ (os[k].log_file => os[k].log_closes = 1)

\* no exit wait was lost: every child that exits fires its notification
NoWaitLost == \A k \in 1..Len(os) : os[k].wait # "lost"

\* C7: with every exit notification delivered, once is_stop_requested is
\* set the engine eventually sets is_stopped with the live set empty.
C7_ShutdownCompletes ==
  ([]NoWaitLost) => (is_stop_requested ~> (is_stopped /\ Len(processes) = 0))

\* a live handle of the spec refers to a child that has exited
Exited(process_name) ==
  \E i \in Live(process_name) : ~os[processes[i].child].alive

\* a live handle of the spec refers to a child that runs
Running(process_name) ==
  \E i \in Live(process_name) : os[processes[i].child].alive

\* ProcessRequestStart for the spec was dispatched and left no handle
StartFailed(process_name) ==
  last = ProcessRequestStart(process_name) /\ Live(process_name) = {}

\* exactly one loaded config has the name
Unique(process_name) ==
  Cardinality({i \in 1..Len(configs) : configs[i].name = process_name}) = 1

\* C8: with every exit notification delivered, a live child that exits
\* while is_stop_requested is false, of a spec whose name no other spec
\* has, leads to a running child of that spec again, unless a stop is
\* requested or the spawn fails.
C8_CrashRestart ==
  ([]NoWaitLost) =>
    \A n \in Names :
      (Exited(n) /\ ~is_stop_requested /\ Unique(n))
        ~> (Running(n) \/ is_stop_requested \/ StartFailed(n))

\* C11: a handle's callback context is released only once its exit callback
\* has run to its end, UnregisterWait included: no handle is dropped while
\* its wait is still registered or its callback is between the send and the
\* unregister.
C11_ContextOutlivesCallback ==
  \A k \in 1..Len(os) : os[k].dropped => os[k].wait = "done"

\* s is the front of t
IsPrefix(s, t) == Len(s) <= Len(t) /\ SubSeq(t, 1, Len(s)) = s

\* C12: events are dispatched in the order they were sent, one at a time:
\* a step either dispatches the head of the queue and leaves every other
\* queued event in its place ahead of whatever is sent meanwhile, or only
\* adds events behind the queued ones.
C12_FifoOrder ==
  [][\/ /\ queue # <<>>
        /\ last' = Head(queue)
        /\ IsPrefix(Tail(queue), queue')
     \/ /\ last' = last
        /\ IsPrefix(queue, queue')]_vars

\* C12 witness: ProcessRequestStop(id) was dispatched (the child got its
\* CTRL-C) and ProcessStopped(id), sent later, reaped the handle afterwards.
C12_Witness ==
  /\ last.type = "ProcessStopped"
  /\ \E k \in 1..Len(os) :
       /\ os[k].process_id = last.id
       /\ os[k].dropped
       /\ os[k].signalled

\* the last memory value is present and above a threshold that is set
MemoryOver(h) ==
  /\ h.config.recycle_on_memory_mbs \in Nat
  /\ h.memory_usage_mbs \in Nat
  /\ h.memory_usage_mbs - h.config.recycle_on_memory_mbs >= 1

\* the last uptime value is present and above a threshold that is set
DurationOver(h) ==
  /\ h.config.recycle_on_duration_secs \in Nat
  /\ h.duration_secs \in Nat
  /\ h.duration_secs - h.config.recycle_on_duration_secs >= 1

\* C13: is_recycle_required is true exactly when a set threshold has a
\* present metric strictly above it; a tick sends ProcessRequestStop for the
\* handle exactly then.
C13_RecycleStrictlyAbove ==
  \A i \in 1..Len(processes) :
    LET h == processes[i] IN
      /\ is_recycle_required(h) <=> (MemoryOver(h) \/ DurationOver(h))
      /\ last.type = "OrchestratorTick"
           => ((\E j \in 1..Len(sent) : sent[j] = ProcessRequestStop(h.id))
                 <=> (MemoryOver(h) \/ DurationOver(h)))

\* C13 witness: a tick left a handle whose uptime equals its threshold, and
\* sent no ProcessRequestStop.
C13_Witness ==
  /\ last.type = "OrchestratorTick"
  /\ sent = <<>>
  /\ Len(processes) = 1
  /\ processes[1].config.recycle_on_duration_secs # None
  /\ processes[1].duration_secs = processes[1].config.recycle_on_duration_secs

\* C14: ProcessRequestStop(id) for a live handle that has its process handle
\* and pid invokes one stop operation on the OS: send_ctrl_c alone, which
\* signals the child and closes nothing, when stop_method is CtrlC;
\* terminate alone, which ends the child and closes the process handle once,
\* when stop_method is Terminate or is not set.
C14_OneStopOperation ==
  [][(/\ DispatchStep
      /\ Head(queue).type = "ProcessRequestStop"
      /\ HasProcess(Head(queue).id))
       => LET h == processes[find_process_by_process_id(Head(queue).id)]
              c == os[h.child]
              d == os'[h.child]
          IN (h.process_handle /\ h.pid)
               => IF h.config.stop_method = "CtrlC"
                    THEN /\ ops' = <<"send_ctrl_c">>
                         /\ d.signalled
                         /\ d.alive = c.alive
                         /\ d.process_closes = c.process_closes
                    ELSE /\ ops' = <<"terminate">>
                         /\ ~d.alive
                         /\ d.signalled = c.signalled
                         /\ d.process_closes = c.process_closes + 1]_vars

\* C14 witness: ProcessRequestStop was dispatched for a handle whose spec
\* names the Terminate method, and terminate ran.
C14_Witness ==
  /\ last.type = "ProcessRequestStop"
  /\ ops = <<"terminate">>
  /\ \E i \in 1..Len(processes) :
       /\ processes[i].id = last.id
       /\ processes[i].config.stop_method = "Terminate"
       /\ os[processes[i].child].process_closes = 1

\* on_orchestrator_starting returned the error of load_stateful_process_configs:
\* the CTRL-C handler is set, and neither configs nor timer thread exist
LoaderFailed ==
  /\ last # NoEvent
  /\ ctrlc_registered
  /\ ~tick_started

\* C15: once the loader has failed in OrchestratorStarting the engine is
\* stopped: the loop dispatches no further event.
C15_LoaderFailureAbortsStartup ==
  [][LoaderFailed => ~DispatchStep]_vars

\* start_instance returned an error while ProcessRequestStart is dispatched:
\* CreateProcessA created no child, or the child it created has no exit wait
SpawnFails ==
  /\ DispatchStep
  /\ Head(queue).type = "ProcessRequestStart"
  /\ HasConfig(Head(queue).name)
  /\ \/ os' = os
     \/ /\ Len(os') = Len(os) + 1
        /\ os'[Len(os')].wait = "none"

\* C16: a failed spawn inserts no handle, leaves the live set and every
\* other engine variable as they were, sends no event, and leaves the loop
\* running with the next event at the head of the queue.
C16_SpawnFailureChangesNothing ==
  [][SpawnFails =>
       /\ UNCHANGED <<processes, configs, is_stop_requested, is_stopped>>
       /\ sent' = <<>>
       /\ queue' = Tail(queue)
       /\ ~is_stopped']_vars

\* C16 witness: ProcessRequestStart was dispatched, the exit-wait
\* registration failed, and no handle refers to the child that was created.
C16_Witness ==
  /\ last.type = "ProcessRequestStart"
  /\ sent = <<>>
  /\ Len(os) > 0
  /\ os[Len(os)].wait = "none"
  /\ \A i \in 1..Len(processes) : processes[i].child # Len(os)

\* a handler returned an error: ctrlc::set_handler or the loader in
\* OrchestratorStarting, start_instance in ProcessRequestStart
HandlerFails ==
  \/ SpawnFails
  \/ /\ DispatchStep
     /\ Head(queue).type = "OrchestratorStarting"
     /\ ~tick_started'

\* C17: is_stopped is set only by dispatching OrchestratorStopping; a
\* handler that returns an error leaves the loop running with the rest of
\* the queue to dispatch; once is_stopped is set nothing is dispatched.
C17_LoopEndsOnlyByStopping ==
  [][/\ (~is_stopped /\ is_stopped')
          => (DispatchStep /\ Head(queue).type = "OrchestratorStopping")
     /\ HandlerFails => (~is_stopped' /\ queue' = Tail(queue))
     /\ is_stopped
          => UNCHANGED <<queue, last, sent, ops, configs, processes,
                         is_stop_requested, is_stopped>>]_vars

\* C17 witness: start_instance failed for a ProcessRequestStart, and the
\* loop has since dispatched a later event.
C17_Witness ==
  /\ ~is_stopped
  /\ last.type \notin {"ProcessRequestStart", "OrchestratorStopping"}
  /\ \E k \in 1..Len(os) : os[k].wait = "none"

\* C18: is_stop_requested and is_stopped never go back to false, and
\* is_stopped is never true while is_stop_requested is false.
C18_Latches ==
  /\ [](is_stopped => is_stop_requested)
  /\ [][(is_stop_requested => is_stop_requested')
           /\ (is_stopped => is_stopped')]_vars

\* C18 witness: two OrchestratorRequestStop were sent and dispatched, the
\* second with is_stop_requested already set, and the loop has stopped.
C18_Witness ==
  /\ is_stopped
  /\ is_stop_requested
  /\ stop_signals = MaxStopSignals
  /\ Sends(queue, "OrchestratorRequestStop") = {}

\* the handler waits in recv() for the loop to end
HandlerBlocked == service.handler = "blocked"

\* the loop has dispatched an event
LoopHasRun == last # NoEvent

\* no call of service_main_inner to the service control manager failed
HostCallsSucceed == service.phase # "failed"

\* C19: the service has reported Running before the loop dispatches
\* anything, reports Stopped only once the loop has ended, and a Stop
\* control is released only after that; with every exit notification
\* delivered and no call to the service control manager failing, every Stop
\* control that blocks the handler is released in the end.
C19_StopHandlerBlocksUntilExit ==
  /\ [](LoopHasRun => service.status \in {"Running", "Stopped"})
  /\ [](service.status = "Stopped" => is_stopped)
  /\ [](service.handler = "released" => (is_stopped /\ service.status = "Stopped"))
  /\ (([]NoWaitLost /\ []HostCallsSucceed)
        => (HandlerBlocked ~> service.handler = "released"))

\* an exit notification carrying the id has fired for a child that exited
NotificationFired(process_id) ==
  \E j \in 1..Len(os) :
    /\ os[j].process_id = process_id
    /\ ~os[j].alive
    /\ os[j].wait \in {"sent", "done"}

C21_FailedMetricRecordedAbsent ==
  \A i \in 1..Len(processes) :
    \A r \in Readings :
      /\ poll(processes[i], r).memory_usage_mbs = get_memory_usage(processes[i], r)
      /\ poll(processes[i], r).duration_secs = get_duration_in_seconds(processes[i], r)

\* a ProcessRequestStart that on_process_config_loaded sent for a spec of
\* which no child was created yet is queued
ColdStartPending ==
  \E i \in 1..Len(queue) :
    \/ queue[i].type = "ProcessConfigLoaded"
    \/ /\ queue[i].type = "ProcessRequestStart"
       /\ UsedSuffixes(queue[i].name) = {}

\* C22: with no stop requested, the loop dispatches no OrchestratorTick
\* before it has dispatched the ProcessConfigLoaded and the
\* ProcessRequestStart of every loaded spec.
C22_ColdStartBeforeFirstTick ==
  [][(/\ DispatchStep
      /\ Head(queue).type = "OrchestratorTick"
      /\ ~is_stop_requested
      /\ stop_signals = 0)
       => ~ColdStartPending]_vars

\* the positions of the live handles whose recycle is required
RecycleRequired(ps) == {i \in 1..Len(ps) : is_recycle_required(ps[i])}

\* C23: OrchestratorTick leaves the live set's members, configs and the two
\* flags as they were, and sends, judged on the metrics every handle has
\* after the polls, one ProcessRequestStop for each handle whose recycle is
\* required and nothing else.
C23_TickTwoPasses ==
  [][(DispatchStep /\ Head(queue).type = "OrchestratorTick")
       => /\ UNCHANGED <<configs, is_stop_requested, is_stopped>>
          /\ Len(processes') = Len(processes)
          /\ \A i \in 1..Len(processes) :
               /\ processes'[i].id = processes[i].id
               /\ processes'[i].child = processes[i].child
               /\ \E r \in Readings : processes'[i] = poll(processes[i], r)
          /\ Len(sent') = Cardinality(RecycleRequired(processes'))
          /\ \A j \in 1..Len(sent') :
               \E i \in RecycleRequired(processes') :
                 sent'[j] = ProcessRequestStop(processes'[i].id)
          /\ \A i \in RecycleRequired(processes') :
               \E j \in 1..Len(sent') :
                 sent'[j] = ProcessRequestStop(processes'[i].id)]_vars

\* C23 witness: a tick polled two live handles of different specs and sent
\* ProcessRequestStop for both.
C23_Witness ==
  /\ last.type = "OrchestratorTick"
  /\ Len(processes) = 2
  /\ processes[1].id # processes[2].id
  /\ sent = <<ProcessRequestStop(processes[1].id), ProcessRequestStop(processes[2].id)>>

\* C24: ProcessRequestPoll(id) for a live handle sends ProcessStopped(id)
\* alone when the handle's child is not running, whatever its metrics,
\* ProcessRequestStop(id) alone when the child runs and the polled metrics
\* require recycle, and nothing when it runs under its thresholds.
C24_PollSendsOneOrNone ==
  [][(/\ DispatchStep
      /\ Head(queue).type = "ProcessRequestPoll"
      /\ HasProcess(Head(queue).id))
       => LET process_id == Head(queue).id
              process == processes'[find_process_by_process_id(process_id)]
          IN sent' = IF ~os[process.child].alive
                       THEN <<ProcessStopped(process_id)>>
                     ELSE IF is_recycle_required(process)
                       THEN <<ProcessRequestStop(process_id)>>
                     ELSE <<>>]_vars

\* C25: once the pump and its receiver are gone, no step changes the queue
\* or a field of the pump, and no producer thread has failed: a late send of
\* the timer thread or of an exit callback is dropped quietly.
C25_LateProducersHarmless ==
  [][PumpDropped
       => /\ UNCHANGED <<queue, configs, processes, is_stop_requested, is_stopped>>
          /\ service'.panicked = {}]_vars

\* C26: the handle a ProcessRequestStart adds for a spec (one whose name no
\* other spec has, so that every earlier child of the name is one this handle
\* replaces) has an id that no earlier child was created with.
C26_RestartGetsNewId ==
  [][(/\ DispatchStep
      /\ Head(queue).type = "ProcessRequestStart"
      /\ Unique(Head(queue).name)
      /\ Len(processes') > Len(processes))
       => \A k \in 1..Len(os) :
            os[k].process_id # processes'[Len(processes')].id]_vars

\* the event the loop is about to dispatch is addressed to a handle by id,
\* and no live handle has the id
AddressedToUnknownId ==
  /\ Head(queue).type \in {"ProcessRequestPoll", "ProcessRequestStop", "ProcessStopped"}
  /\ ~HasProcess(Head(queue).id)

\* C27: dispatching ProcessRequestPoll, ProcessRequestStop or ProcessStopped
\* for an id no live handle has changes no variable of the pump and no
\* child, performs no stop operation and sends nothing: a second
\* ProcessStopped(id) causes neither a restart nor an OrchestratorStopping.
C27_UnknownIdChangesNothing ==
  [][(DispatchStep /\ AddressedToUnknownId)
       => /\ UNCHANGED <<configs, processes, is_stop_requested, is_stopped,
                         ctrlc_registered, tick_started, os, stop_signals, service>>
          /\ sent' = <<>>
          /\ ops' = <<>>
          /\ queue' = Tail(queue)]_vars

\* C27 witness: a second ProcessStopped for the reaped handle was dispatched
\* with a stop requested and no live handle left, and nothing was sent.
C27_Witness ==
  /\ last = ProcessStopped(create_process_id("A", 1))
  /\ os[1].process_id = last.id
  /\ os[1].dropped
  /\ is_stop_requested
  /\ processes = <<>>
  /\ sent = <<>>

====
